---- MODULE Spec2Model ----
(***************************************************************************)
(* KenterEnergyMonitor (kenter_energy.py): OAuth2 token cache, MQTT        *)
(* connection and publish-with-retry, and the polling run loop.            *)
(***************************************************************************)
EXTENDS Integers, Sequences, FiniteSets, TLC

VARIABLES
    \* ---- object fields (KenterEnergyMonitor.__init__)
    mqtt_connected,   \* self.mqtt_connected
    access_token,     \* self.access_token   (None or <<token>>)
    refresh_token,    \* self.refresh_token  (None or <<token>>)
    token_expiry,     \* self.token_expiry   (None or <<instant>>)
    \* ---- environment
    now,              \* wall clock, seconds (datetime.now())
    creds,            \* MQTT_USER and MQTT_PASSWORD are both set (lines 23-24, 82)
    loop_running,     \* the transport's background thread was started (loop_start)
    \* ---- position and locals of the foreground thread
    pc,               \* where the foreground thread stands
    cm_ret,           \* connect_mqtt: the call site to return to
    cm_polls,         \* connect_mqtt: polls left in the 10 second window
    attempt,          \* publish_with_retry: the loop variable of line 270
    psd_msgs,         \* publish_sensor_data: the publishes still to make
    \* ---- records kept for the properties
    last,             \* the last token-manager call
    pwr,              \* the current or last publish_with_retry call
    cm_failed,        \* connect_mqtt: an attempt of the current call has failed
    notified          \* the last notification the broker thread delivered

tokvars == <<access_token, refresh_token, token_expiry>>
progvars == <<creds, loop_running, pc, cm_ret, cm_polls, attempt, psd_msgs, pwr, cm_failed,
              notified>>
vars == <<mqtt_connected, access_token, refresh_token, token_expiry, now, creds,
          loop_running, pc, cm_ret, cm_polls, attempt, psd_msgs, last, pwr, cm_failed,
          notified>>

(***************************************************************************)
(* Python values: None is the empty tuple, any other value v is <<v>>.     *)
(***************************************************************************)
None == <<>>
Some(v) == <<v>>
Val(x) == x[1]
Truthy(x) == x # None

(***************************************************************************)
(* Bounds of the model.                                                    *)
(***************************************************************************)
MaxNow == 3900
\* the run loop's clock is followed up to here
MaxRunClock == 60
TickSteps == {600, 3000}
AccessTokens == {"A1", "A2"}
RefreshTokens == {"R1", "R2"}
ExpiresIn == {60, 3600}

\* the 5 minute buffer of lines 151 and 185
EXPIRY_BUFFER == 300

(***************************************************************************)
(* Answers of the token endpoint.  ok = FALSE: the request raised a        *)
(* requests.exceptions.RequestException (network error, non-2xx status via *)
(* raise_for_status, undecodable body).  ok = TRUE: a JSON object, whose   *)
(* keys access_token, refresh_token, expires_in may each be absent (None). *)
(***************************************************************************)
ErrorResponse ==
    [ok |-> FALSE, access_token |-> None, refresh_token |-> None, expires_in |-> None]

BodyResponses ==
    [ok : {TRUE},
     access_token : {Some(a) : a \in AccessTokens},
     refresh_token : {None} \cup {Some(r) : r \in RefreshTokens},
     expires_in : {None} \cup {Some(e) : e \in ExpiresIn}]
    \cup {[ok |-> TRUE, access_token |-> None, refresh_token |-> None, expires_in |-> Some(3600)]}

TokenResponses == {ErrorResponse} \cup BodyResponses

TokenState(a, r, e) == [access_token |-> a, refresh_token |-> r, token_expiry |-> e]

\* lines 147-152 and 182-186: the stores that follow response.json().  The
\* stores happen one after the other; a missing key raises KeyError at the
\* store that reads it, and the stores before it have already happened.
\* buffer is the margin taken off expires_in.
StoreTokensWith(ts, t, resp, buffer) ==
    IF resp.access_token = None
    THEN [ts |-> ts, ret |-> None, exc |-> "KeyError"]
    ELSE LET ts1 == [ts EXCEPT !.access_token = resp.access_token,
                               !.refresh_token = IF resp.refresh_token # None
                                                 THEN resp.refresh_token ELSE @]
         IN IF resp.expires_in = None
            THEN [ts |-> ts1, ret |-> None, exc |-> "KeyError"]
            ELSE [ts |-> [ts1 EXCEPT !.token_expiry =
                                 Some(t + (Val(resp.expires_in) - buffer))],
                  ret |-> resp.access_token, exc |-> "none"]

\* the margin forgotten
StoreTokensNoBuffer(ts, t, resp) == StoreTokensWith(ts, t, resp, 0)

\* the margin added instead of taken off
StoreTokensBufferAdded(ts, t, resp) == StoreTokensWith(ts, t, resp, -EXPIRY_BUFFER)

StoreTokens(ts, t, resp) == StoreTokensWith(ts, t, resp, EXPIRY_BUFFER)

\* the expiry never looked at
CacheValidIgnoresExpiry(ts, t) ==
    Truthy(ts.access_token) /\ Truthy(ts.token_expiry)

\* line 124: the cache test

CacheValid(ts, t) ==
    Truthy(ts.access_token) /\ Truthy(ts.token_expiry) /\ t < Val(ts.token_expiry)

\* get_jwt_token (lines 122-155).  resp is what the token endpoint answers if
\* it is asked.  Result: the token state after the call, the value returned
\* (None also when an exception leaves the call), the exception that leaves
\* the call, and the requests made (grant type and answer of each).
get_jwt_token(ts, t, resp) ==
    IF CacheValid(ts, t)
    THEN [ts |-> ts, ret |-> ts.access_token, exc |-> "none", posts |-> <<>>]
    ELSE LET post == <<[grant |-> "client_credentials", resp |-> resp]>>
         IN IF ~resp.ok
            THEN [ts |-> ts, ret |-> None, exc |-> "none", posts |-> post]
            ELSE LET s == StoreTokens(ts, t, resp)
                 IN [ts |-> s.ts, ret |-> s.ret, exc |-> s.exc, posts |-> post]

\* line 190: the fallback of a failed refresh
RefreshFallback(ts, t, resp) == get_jwt_token(ts, t, resp)

\* refresh_jwt_token (lines 157-190).  rresp answers the refresh grant,
\* cresp the client-credentials grant, each if it is asked.
refresh_jwt_token(ts, t, rresp, cresp) ==
    IF ~Truthy(ts.refresh_token)
    THEN get_jwt_token(ts, t, cresp)
    ELSE LET post == <<[grant |-> "refresh_token", resp |-> rresp]>>
         IN IF ~rresp.ok
            THEN LET g == RefreshFallback(ts, t, cresp)
                 IN [g EXCEPT !.posts = post \o @]
            ELSE LET s == StoreTokens(ts, t, rresp)
                 IN [ts |-> s.ts, ret |-> s.ret, exc |-> s.exc, posts |-> post]

(***************************************************************************)
(* The token manager driven by a client: calls of get_jwt_token and        *)
(* refresh_jwt_token in any order, the clock advancing between them.       *)
(***************************************************************************)
CurrentTokens == TokenState(access_token, refresh_token, token_expiry)

NoCall == [op |-> "none", pre |-> TokenState(None, None, None), t |-> 0,
           ret |-> None, exc |-> "none", posts |-> <<>>]

Record(op, r) ==
    /\ access_token' = r.ts.access_token
    /\ refresh_token' = r.ts.refresh_token
    /\ token_expiry' = r.ts.token_expiry
    /\ last' = [op |-> op, pre |-> CurrentTokens, t |-> now,
                ret |-> r.ret, exc |-> r.exc, posts |-> r.posts]

CallGetJwtToken ==
    /\ \E resp \in TokenResponses : Record("get_jwt_token", get_jwt_token(CurrentTokens, now, resp))
    /\ UNCHANGED <<mqtt_connected, now, progvars>>

CallRefreshJwtToken ==
    /\ \E rresp \in TokenResponses, cresp \in TokenResponses :
          Record("refresh_jwt_token", refresh_jwt_token(CurrentTokens, now, rresp, cresp))
    /\ UNCHANGED <<mqtt_connected, now, progvars>>

\* time passes between two calls
Tick ==
    /\ \E d \in TickSteps : now + d <= MaxNow /\ now' = now + d
    /\ last' = NoCall
    /\ UNCHANGED <<mqtt_connected, access_token, refresh_token, token_expiry, progvars>>

\* lines 31-35: the fields after construction
InitFields ==
    /\ mqtt_connected = FALSE
    /\ access_token = None
    /\ refresh_token = None
    /\ token_expiry = None

\* state: idle, active, done; entry: the flag as line 264 read it; reconnect:
\* what the connect_mqtt of line 266 returned; log: the outcome of each
\* transport publish; result: the value returned
NoPublish ==
    [state |-> "idle", entry |-> TRUE, reconnect |-> "none", log |-> <<>>, result |-> FALSE]

\* the foreground thread before the constructor runs
InitForeground ==
    /\ loop_running = FALSE
    /\ pc = "start"
    /\ cm_ret = "none"
    /\ cm_polls = 0
    /\ attempt = 0
    /\ psd_msgs = <<>>
    /\ pwr = NoPublish
    /\ cm_failed = FALSE
    /\ notified = "none"

TokInit == InitFields /\ InitForeground /\ creds = TRUE /\ now = 0 /\ last = NoCall

TokNext == CallGetJwtToken \/ CallRefreshJwtToken \/ Tick

SpecTok == TokInit /\ [][TokNext]_vars

(***************************************************************************)
(* BrokerPublisher: connect_mqtt and publish_with_retry, run by the        *)
(* foreground thread one shared-flag access at a time, and the callbacks   *)
(* on_connect / on_disconnect, run by the transport's background thread.   *)
(***************************************************************************)
\* line 262: retries=3
RETRIES == 3
\* polls of the flag in one 10 second window (lines 107-109), scaled down
WaitPolls == 2

\* what one transport publish (line 272) can do: return MQTT_ERR_SUCCESS,
\* return another result code, raise
PublishOutcomes == {"ok", "rc", "raise"}

\* the clock after a sleep of d seconds, as far as the model follows it
Later(t, d) == IF t + d <= MaxRunClock THEN t + d ELSE t

fgvars == <<pc, cm_ret, cm_polls, attempt, psd_msgs, pwr, cm_failed>>

\* a call of connect_mqtt from the call site `site`
CallConnect(site) ==
    /\ pc' = "cm_while"
    /\ cm_ret' = site
    /\ cm_failed' = FALSE

\* publish_with_retry returns `result` to publish_sensor_data, which ignores it
PwrReturn(p, result) ==
    /\ pc' = "psd"
    /\ pwr' = [p EXCEPT !.state = "done", !.result = result]
    /\ attempt' = attempt

\* line 270: the for loop goes on with loop variable a, or is exhausted (line 285)
PwrNext(p, a) ==
    IF a < RETRIES
    THEN pc' = "pwr_for" /\ attempt' = a /\ pwr' = p
    ELSE PwrReturn(p, FALSE)

\* connect_mqtt returns `result` to its call site
CmReturn(result) ==
    LET p == IF cm_ret = "pwr_266"
             THEN [pwr EXCEPT !.reconnect = IF result THEN "true" ELSE "false"]
             ELSE pwr
    IN CASE cm_ret = "init" ->
              \* line 96: setup_mqtt drops the result; __main__ goes on to run()
              pc' = "run_try" /\ UNCHANGED <<pwr, attempt>>
         [] cm_ret = "pwr_266" ->
              \* lines 266-268
              IF result THEN pc' = "pwr_for" /\ pwr' = p /\ attempt' = attempt
                        ELSE PwrReturn(p, FALSE)
         [] cm_ret = "pwr_277" ->
              \* lines 277-280
              IF result THEN PwrNext(p, attempt + 1) ELSE PwrReturn(p, FALSE)
         [] cm_ret = "pwr_283" ->
              \* lines 283-284
              IF result THEN PwrNext(p, attempt + 1) ELSE PwrReturn(p, FALSE)

\* line 100: the test of the outer while; line 120 when it fails
CmWhile ==
    /\ pc = "cm_while"
    /\ IF ~mqtt_connected
       THEN pc' = "cm_connect" /\ UNCHANGED <<pwr, attempt>>
       ELSE CmReturn(FALSE)
    /\ UNCHANGED <<mqtt_connected, tokvars, now, creds, loop_running, cm_ret, cm_polls,
                   psd_msgs, last, cm_failed, notified>>

\* the flag set by the foreground thread as soon as connect() has returned
CmConnectSetsFlag ==
    /\ pc = "cm_connect"
    /\ \E raised \in BOOLEAN :
          IF raised
          THEN /\ pc' = "cm_sleep"
               /\ cm_failed' = TRUE
               /\ UNCHANGED <<loop_running, cm_polls, mqtt_connected>>
          ELSE /\ pc' = "cm_wait"
               /\ loop_running' = TRUE
               /\ cm_polls' = WaitPolls
               /\ cm_failed' = cm_failed
               /\ mqtt_connected' = TRUE
    /\ UNCHANGED <<tokvars, now, creds, cm_ret, attempt, psd_msgs, last, pwr, notified>>

\* lines 102-107: the connect request, which may raise (caught at line 116),
\* then loop_start and the start of the wait window
CmConnect ==
    /\ pc = "cm_connect"
    /\ \E raised \in BOOLEAN :
          IF raised
          THEN /\ pc' = "cm_sleep"
               /\ cm_failed' = TRUE
               /\ UNCHANGED <<loop_running, cm_polls>>
          ELSE /\ pc' = "cm_wait"
               /\ loop_running' = TRUE
               /\ cm_polls' = WaitPolls
               /\ cm_failed' = cm_failed
    /\ UNCHANGED <<mqtt_connected, tokvars, now, creds, cm_ret, attempt, psd_msgs, last, pwr, notified>>

\* lines 108-109: one test of the wait loop
CmWait ==
    /\ pc = "cm_wait"
    /\ IF mqtt_connected
       THEN pc' = "cm_check" /\ cm_polls' = cm_polls
       ELSE IF cm_polls > 0
            THEN pc' = pc /\ cm_polls' = cm_polls - 1
            ELSE pc' = "cm_check" /\ cm_polls' = cm_polls
    /\ UNCHANGED <<mqtt_connected, tokvars, now, creds, loop_running, cm_ret, attempt,
                   psd_msgs, last, pwr, cm_failed, notified>>

\* lines 111-117: the second read of the flag; a timeout is raised and caught
CmCheck ==
    /\ pc = "cm_check"
    /\ IF ~mqtt_connected
       THEN /\ pc' = "cm_sleep"
            /\ cm_failed' = TRUE
            /\ UNCHANGED <<pwr, attempt>>
       ELSE CmReturn(TRUE) /\ cm_failed' = cm_failed
    /\ UNCHANGED <<mqtt_connected, tokvars, now, creds, loop_running, cm_ret, cm_polls,
                   psd_msgs, last, notified>>

\* line 118: time.sleep(MQTT_RECONNECT_DELAY), then back to line 100
CmSleep ==
    /\ pc = "cm_sleep"
    /\ pc' = "cm_while"
    /\ UNCHANGED <<mqtt_connected, tokvars, now, creds, loop_running, cm_ret, cm_polls,
                   attempt, psd_msgs, last, pwr, cm_failed, notified>>

\* lines 264-266: the flag read on entry
PwrEntry ==
    /\ pc = "pwr_entry"
    /\ pwr' = [pwr EXCEPT !.entry = mqtt_connected]
    /\ IF ~mqtt_connected
       THEN CallConnect("pwr_266")
       ELSE pc' = "pwr_for" /\ UNCHANGED <<cm_ret, cm_failed>>
    /\ UNCHANGED <<mqtt_connected, tokvars, now, creds, loop_running, cm_polls, attempt,
                   psd_msgs, last, notified>>

\* lines 270-275 and 281-283: one transport publish and what follows at once
PwrFor ==
    /\ pc = "pwr_for"
    /\ \E o \in PublishOutcomes :
          LET p == [pwr EXCEPT !.log = Append(@, o)]
          IN CASE o = "ok" -> PwrReturn(p, TRUE) /\ UNCHANGED <<cm_ret, cm_failed>>
               [] o = "rc" -> pc' = "pwr_276" /\ pwr' = p /\ UNCHANGED <<attempt, cm_ret, cm_failed>>
               [] o = "raise" -> CallConnect("pwr_283") /\ pwr' = p /\ attempt' = attempt
    /\ UNCHANGED <<mqtt_connected, tokvars, now, creds, loop_running, cm_polls, psd_msgs, last, notified>>

\* lines 276-280: after a failed result code
Pwr276 ==
    /\ pc = "pwr_276"
    /\ IF ~mqtt_connected
       THEN CallConnect("pwr_277") /\ UNCHANGED <<pwr, attempt>>
       ELSE PwrNext(pwr, attempt + 1) /\ UNCHANGED <<cm_ret, cm_failed>>
    /\ UNCHANGED <<mqtt_connected, tokvars, now, creds, loop_running, cm_polls, psd_msgs, last, notified>>

\* lines 39-57: on_connect(rc), on the background thread
ConnectCodes == {0, 4, 5}

OnConnect ==
    /\ loop_running
    /\ \E rc \in ConnectCodes :
          /\ mqtt_connected' = (rc = 0)
          /\ notified' = IF rc = 0 THEN "on_connect_ok" ELSE "on_connect_failed"
    /\ UNCHANGED <<tokvars, now, creds, loop_running, fgvars, last>>

\* lines 59-64: on_disconnect(rc), on the background thread
OnDisconnect ==
    /\ loop_running
    /\ mqtt_connected' = FALSE
    /\ notified' = "on_disconnect"
    /\ UNCHANGED <<tokvars, now, creds, loop_running, fgvars, last>>

(***************************************************************************)
(* MeasurementFetcher: fetch_kenter_data.                                  *)
(***************************************************************************)
\* 2024-03-01T00:00:00 as Unix seconds; local time is taken to be UTC
DayStart == 19783 * 86400

\* the keys of quarter_data in the order lines 219-221 insert them: <<hour, minute>>
KeyOrder == [i \in 1..96 |-> <<(i - 1) \div 4, ((i - 1) % 4) * 15>>]
QuarterKeys == {KeyOrder[i] : i \in 1..96}

\* lines 218-226
EmptyQuarterData ==
    [k \in QuarterKeys |-> [consumption |-> 0, feedin |-> 0, timestamp |-> None]]

\* lines 239-240: datetime.fromtimestamp(timestamp), hour and minute
QuarterKey(T) == <<(T \div 3600) % 24, (T \div 60) % 60>>

\* lines 235-248: one measurement of a monitored channel that line 234 has
\* accepted (`accepted`).  Values are in thousandths of a kWh.
ApplyMeasurementIf(qd, channel_id, m, accepted) ==
    IF ~accepted THEN qd
    ELSE LET quarter_key == QuarterKey(Val(m.timestamp))
         IN IF quarter_key \notin QuarterKeys THEN qd
            ELSE [qd EXCEPT ![quarter_key] =
                     [consumption |-> IF channel_id = "16180" THEN m.value ELSE @.consumption,
                      feedin |-> IF channel_id = "16280" THEN m.value ELSE @.feedin,
                      timestamp |-> m.timestamp]]

\* the status never looked at
ApplyMeasurementAnyStatus(qd, channel_id, m) == ApplyMeasurementIf(qd, channel_id, m, TRUE)

\* lines 234-248: `if measurement.get('status') == 'Valid'`
ApplyMeasurement(qd, channel_id, m) ==
    ApplyMeasurementIf(qd, channel_id, m, m.status = "Valid")

RECURSIVE ApplyMeasurements(_, _, _)
ApplyMeasurements(qd, channel_id, ms) ==
    IF ms = <<>> THEN qd
    ELSE ApplyMeasurements(ApplyMeasurement(qd, channel_id, Head(ms)), channel_id, Tail(ms))

\* lines 229-233
RECURSIVE ApplyChannels(_, _)
ApplyChannels(qd, channels) ==
    IF channels = <<>> THEN qd
    ELSE LET channel == Head(channels)
         IN ApplyChannels(
                IF channel.channelId \in {"16180", "16280"}
                THEN ApplyMeasurements(qd, channel.channelId, channel.Measurements)
                ELSE qd,
                Tail(channels))

\* line 239 raises TypeError for a valid measurement of a monitored channel
\* that carries no timestamp
RaisesTypeError(channels) ==
    \E i \in 1..Len(channels) :
        /\ channels[i].channelId \in {"16180", "16280"}
        /\ \E j \in 1..Len(channels[i].Measurements) :
              /\ channels[i].Measurements[j].status = "Valid"
              /\ channels[i].Measurements[j].timestamp = None

Measurement(status, timestamp, value) ==
    [status |-> status, timestamp |-> timestamp, value |-> value]
Channel(id, ms) == [channelId |-> id, Measurements |-> ms]

\* answers of the metering API to the GET of line 212: ok = FALSE is a
\* RequestException (network error, non-2xx), ok = TRUE a list of channels
ApiError == [ok |-> FALSE, body |-> <<>>]
ApiBodies ==
    { <<>>,
      <<Channel("16180", <<Measurement("Valid", Some(DayStart), 1234)>>),
        Channel("16280", <<Measurement("Valid", Some(DayStart), 0)>>)>>,
      <<Channel("16180", <<Measurement("Valid", None, 5)>>)>> }
ApiResponses == {ApiError} \cup {[ok |-> TRUE, body |-> b] : b \in ApiBodies}

\* fetch_kenter_data (lines 192-260): the token state after the call, the
\* local `token` of line 194, the value returned (None or <<quarter_data>>),
\* the exception that leaves the call, and the number of GET requests made.
\* checks_token: the test of lines 195-196 is made; catches: the handler of
\* lines 258-260 is there.
FetchWith(ts, t, tresp, aresp, checks_token, catches) ==
    LET g == get_jwt_token(ts, t, tresp)
        r == [ts |-> g.ts, token |-> g.ret, ret |-> None, exc |-> "none", gets |-> 0]
    IN IF g.exc # "none"
       THEN [r EXCEPT !.exc = g.exc]
       ELSE IF checks_token /\ ~Truthy(g.ret)
       THEN r
       ELSE IF ~aresp.ok
       THEN [r EXCEPT !.gets = 1, !.exc = IF catches THEN "none" ELSE "RequestException"]
       ELSE IF RaisesTypeError(aresp.body)
       THEN [r EXCEPT !.gets = 1, !.exc = "TypeError"]
       ELSE [r EXCEPT !.gets = 1, !.ret = Some(ApplyChannels(EmptyQuarterData, aresp.body))]

\* the GET made with `Bearer None` when no token was obtained
FetchWithoutTokenCheck(ts, t, tresp, aresp) == FetchWith(ts, t, tresp, aresp, FALSE, TRUE)

\* a failed GET left to propagate
FetchPropagates(ts, t, tresp, aresp) == FetchWith(ts, t, tresp, aresp, TRUE, FALSE)

fetch_kenter_data(ts, t, tresp, aresp) == FetchWith(ts, t, tresp, aresp, TRUE, TRUE)

(***************************************************************************)
(* publish_sensor_data: the publishes it makes, in order.                  *)
(***************************************************************************)
\* lines 309, 354-355: `if values['timestamp']`
HasData(values) == values.timestamp # None /\ Val(values.timestamp) # 0

Message(kind, metric, slot, payload) ==
    [kind |-> kind, metric |-> metric, slot |-> slot, payload |-> payload, retain |-> TRUE]

\* the states of a quarter published before its configurations
QuarterMessagesStateFirst(quarter_key, values) ==
    << Message("state", "consumption", quarter_key, values.consumption),
       Message("state", "feedin", quarter_key, values.feedin),
       Message("config", "consumption", quarter_key, <<"kenter_energy_consumption", quarter_key>>),
       Message("config", "feedin", quarter_key, <<"kenter_energy_feedin", quarter_key>>) >>

\* lines 333-351: the four publishes of one quarter
QuarterMessages(quarter_key, values) ==
    << Message("config", "consumption", quarter_key, <<"kenter_energy_consumption", quarter_key>>),
       Message("config", "feedin", quarter_key, <<"kenter_energy_feedin", quarter_key>>),
       Message("state", "consumption", quarter_key, values.consumption),
       Message("state", "feedin", quarter_key, values.feedin) >>

\* lines 308-310: the loop over data.items()
RECURSIVE SlotMessages(_, _)
SlotMessages(data, i) ==
    IF i > 96 THEN <<>>
    ELSE (IF HasData(data[KeyOrder[i]])
          THEN QuarterMessages(KeyOrder[i], data[KeyOrder[i]])
          ELSE <<>>) \o SlotMessages(data, i + 1)

\* lines 354-355
RECURSIVE DailySum(_, _, _)
DailySum(data, field, i) ==
    IF i > 96 THEN 0
    ELSE (IF HasData(data[KeyOrder[i]]) THEN data[KeyOrder[i]][field] ELSE 0)
         + DailySum(data, field, i + 1)

\* lines 373-389
DailyMessages(data) ==
    << Message("config", "consumption", <<"daily">>, <<"kenter_energy_consumption_daily">>),
       Message("config", "feedin", <<"daily">>, <<"kenter_energy_feedin_daily">>),
       Message("state", "consumption", <<"daily">>, DailySum(data, "consumption", 1)),
       Message("state", "feedin", <<"daily">>, DailySum(data, "feedin", 1)) >>

Messages(data) == SlotMessages(data, 1) \o DailyMessages(data)

(***************************************************************************)
(* The program: __main__ constructs the monitor and calls run().           *)
(***************************************************************************)
\* line 25: the default of CHECK_INTERVAL
CHECK_INTERVAL == 3600
\* line 412
COOLDOWN == 60

\* answers of the token endpoint the program is run against
ProgTokenResponses ==
    { ErrorResponse,
      [ok |-> TRUE, access_token |-> Some("A1"), refresh_token |-> Some("R1"),
       expires_in |-> Some(3600)],
      [ok |-> TRUE, access_token |-> Some("A1"), refresh_token |-> None,
       expires_in |-> None] }

\* the credentials test of lines 82-91 left out: an anonymous connection
ConstructAnonymous ==
    /\ pc = "start"
    /\ mqtt_connected' = FALSE
    /\ CallConnect("init")
    /\ UNCHANGED <<tokvars, now, creds, loop_running, cm_polls, attempt, psd_msgs, last, pwr, notified>>

\* lines 29-35, 37-96, 415: __init__ and setup_mqtt up to the call of connect_mqtt
Construct ==
    /\ pc = "start"
    /\ mqtt_connected' = FALSE
    /\ IF creds
       THEN CallConnect("init")
       ELSE pc' = "crashed" /\ UNCHANGED <<cm_ret, cm_failed>>
    /\ UNCHANGED <<tokvars, now, creds, loop_running, cm_polls, attempt, psd_msgs, last, pwr, notified>>

\* how the fetch of an iteration went: no_token (line 196), api_error (lines
\* 258-260), data (line 256), or raised (an exception left fetch_kenter_data)
FetchOutcome(f, aresp) ==
    IF f.token = None
    THEN (IF f.exc # "none" THEN "raised" ELSE "no_token")
    ELSE IF ~aresp.ok THEN "api_error"
    ELSE IF f.exc # "none" THEN "raised" ELSE "data"

\* lines 397-407: one iteration up to the first publish or to the sleep
RunTry ==
    /\ pc = "run_try"
    /\ \E tresp \in ProgTokenResponses, aresp \in ApiResponses :
          LET f == fetch_kenter_data(CurrentTokens, now, tresp, aresp)
          IN /\ access_token' = f.ts.access_token
             /\ refresh_token' = f.ts.refresh_token
             /\ token_expiry' = f.ts.token_expiry
             /\ IF f.exc # "none"
                THEN pc' = "run_cooldown" /\ psd_msgs' = psd_msgs
                ELSE IF f.ret = None
                     THEN pc' = "run_sleep" /\ psd_msgs' = psd_msgs
                     ELSE pc' = "psd" /\ psd_msgs' = Messages(Val(f.ret))
             /\ last' = [op |-> "run_iteration", fetch |-> FetchOutcome(f, aresp)]
    /\ UNCHANGED <<mqtt_connected, now, creds, loop_running, cm_ret, cm_polls, attempt,
                   pwr, cm_failed, notified>>

\* lines 307-391: the next publish of publish_sensor_data, or its return
Psd ==
    /\ pc = "psd"
    /\ IF psd_msgs = <<>>
       THEN pc' = "run_sleep" /\ UNCHANGED <<psd_msgs, pwr, attempt>>
       ELSE /\ pc' = "pwr_entry"
            /\ psd_msgs' = Tail(psd_msgs)
            /\ attempt' = 0
            /\ pwr' = [NoPublish EXCEPT !.state = "active"]
    /\ UNCHANGED <<mqtt_connected, tokvars, now, creds, loop_running, cm_ret, cm_polls,
                   last, cm_failed, notified>>

\* line 409: time.sleep(CHECK_INTERVAL); the iteration is over
RunSleep ==
    /\ pc = "run_sleep"
    /\ pc' = "run_try"
    /\ now' = Later(now, CHECK_INTERVAL)
    /\ last' = NoCall
    /\ UNCHANGED <<mqtt_connected, tokvars, creds, loop_running, cm_ret, cm_polls, attempt,
                   psd_msgs, pwr, cm_failed, notified>>

\* lines 410-412: the exception is caught; time.sleep(60)
RunCooldown ==
    /\ pc = "run_cooldown"
    /\ pc' = "run_try"
    /\ now' = Later(now, COOLDOWN)
    /\ last' = NoCall
    /\ UNCHANGED <<mqtt_connected, tokvars, creds, loop_running, cm_ret, cm_polls, attempt,
                   psd_msgs, pwr, cm_failed, notified>>

Init == InitFields /\ InitForeground /\ creds \in BOOLEAN /\ now = 0 /\ last = NoCall

Foreground ==
    \/ Construct \/ CmWhile \/ CmConnect \/ CmWait \/ CmCheck \/ CmSleep
    \/ PwrEntry \/ PwrFor \/ Pwr276 \/ Psd \/ RunTry \/ RunSleep \/ RunCooldown

Background == OnConnect \/ OnDisconnect

Next ==
    \/ Construct \/ CmWhile \/ CmConnect \/ CmWait \/ CmCheck \/ CmSleep
    \/ PwrEntry \/ PwrFor \/ Pwr276 \/ Psd \/ RunTry \/ RunSleep \/ RunCooldown
    \/ OnConnect \/ OnDisconnect

Spec == Init /\ [][Next]_vars

\* the foreground thread keeps running; the broker owes nothing
FairSpec == Spec /\ WF_vars(Foreground)

(***************************************************************************)
(* One fetch and the publishes made from its result (lines 402-404), for   *)
(* a range of answers of the metering API.                                 *)
(***************************************************************************)
\* lines 287-290 and 307-389: the publishes publish_sensor_data makes for
\* what fetch_kenter_data returned
publish_sensor_data(data) == IF data = None THEN <<>> ELSE Messages(Val(data))

\* measurements of the day: at 00:15, 00:30 and 00:07, valid or not
FetchTimestamps == {DayStart + 900, DayStart + 1800, DayStart + 420}
FetchValues == {2, 5}
FetchMeasurements ==
    {Measurement(st, Some(T), v) : st \in {"Valid", "Invalid"}, T \in FetchTimestamps,
                                   v \in FetchValues}
AtMostOne == {<<>>} \cup {<<m>> : m \in FetchMeasurements}
AtMostTwo == AtMostOne \cup {<<m1, m2>> : m1 \in FetchMeasurements, m2 \in FetchMeasurements}

\* the consumption channel, then the feed-in channel or one that is not monitored
FetchBodies ==
    {<<Channel("16180", ms1), Channel(id, ms2)>> :
        ms1 \in AtMostTwo, id \in {"16280", "17180"}, ms2 \in AtMostOne}
FetchResponses == {ApiError} \cup {[ok |-> TRUE, body |-> b] : b \in FetchBodies}

\* the token endpoint fails or answers in full
FetchTokenResponses ==
    { ErrorResponse,
      [ok |-> TRUE, access_token |-> Some("A2"), refresh_token |-> Some("R2"),
       expires_in |-> Some(3600)] }

\* the token state and the clock at the fetch: nothing cached; a token
\* cached at instant 0 for 3600 seconds, before and after its stored expiry
FetchSituations ==
    { [ts |-> TokenState(None, None, None), t |-> 0],
      [ts |-> TokenState(Some("A1"), Some("R1"), Some(3300)), t |-> 600],
      [ts |-> TokenState(Some("A1"), Some("R1"), Some(3300)), t |-> 3600] }

FetchInit ==
    /\ InitForeground
    /\ mqtt_connected = FALSE
    /\ creds = TRUE
    /\ \E sit \in FetchSituations :
          /\ access_token = sit.ts.access_token
          /\ refresh_token = sit.ts.refresh_token
          /\ token_expiry = sit.ts.token_expiry
          /\ now = sit.t
    /\ \E tresp \in FetchTokenResponses, aresp \in FetchResponses :
          last = [op |-> "input", tresp |-> tresp, aresp |-> aresp]

\* lines 402-404: data = fetch_kenter_data(...); publish_sensor_data(data, ...)
FetchAndPublish ==
    /\ last.op = "input"
    /\ LET f == fetch_kenter_data(CurrentTokens, now, last.tresp, last.aresp)
       IN /\ access_token' = f.ts.access_token
          /\ refresh_token' = f.ts.refresh_token
          /\ token_expiry' = f.ts.token_expiry
          /\ last' = [op |-> "fetch_kenter_data", pre |-> CurrentTokens, t |-> now,
                      tresp |-> last.tresp, aresp |-> last.aresp,
                      token |-> f.token, ret |-> f.ret, exc |-> f.exc, gets |-> f.gets,
                      msgs |-> publish_sensor_data(f.ret)]
    /\ UNCHANGED <<mqtt_connected, now, progvars>>

SpecFetch == FetchInit /\ [][FetchAndPublish]_vars

(***************************************************************************)
(* Token manager: properties of the last call.                             *)
(***************************************************************************)
TokenCall == last.op \in {"get_jwt_token", "refresh_jwt_token"}

\* the last request made by the last call, when it made one
LastPost == last.posts[Len(last.posts)]

\* a request whose answer carried everything an exchange needs
Exchanged(p) ==
    p.resp.ok /\ p.resp.access_token # None /\ p.resp.expires_in # None

\* C4: get_jwt_token called with a cached token and now < token_expiry
\* returns the cached access token and makes no request to the token
\* endpoint; called with no cached token or with the expiry passed it makes
\* exactly one client-credentials request.
C4_TokenCaching ==
    last.op = "get_jwt_token" =>
        IF /\ last.pre.access_token # None
           /\ last.pre.token_expiry # None
           /\ last.t < Val(last.pre.token_expiry)
        THEN last.ret = last.pre.access_token /\ last.posts = <<>>
        ELSE Len(last.posts) = 1 /\ last.posts[1].grant = "client_credentials"

\* a call answered from the cache, after an earlier exchange and a tick
C4_Witness ==
    /\ last.op = "get_jwt_token"
    /\ last.pre.access_token # None
    /\ last.pre.token_expiry # None
    /\ last.t > 0
    /\ last.t < Val(last.pre.token_expiry)
    /\ last.posts = <<>>
    /\ last.ret = last.pre.access_token

\* C5 (as stated): every token returned by get_jwt_token or
\* refresh_jwt_token is usable when it is returned: now < token_expiry, for
\* every expires_in.
C5_ReturnedTokenUsable ==
    (TokenCall /\ last.ret # None) =>
        token_expiry # None /\ last.t < Val(token_expiry)

\* C5 (amended): a returned token is usable (now < token_expiry) when it
\* comes from the cache or from an exchange whose expires_in exceeds 300; a
\* token from an exchange with expires_in <= 300 is returned with
\* token_expiry <= now.
C5_ReturnedTokenUsableUnlessShortLived ==
    (TokenCall /\ last.ret # None) =>
        /\ token_expiry # None
        /\ IF /\ last.posts # <<>>
              /\ Exchanged(LastPost)
              /\ Val(LastPost.resp.expires_in) <= 300
           THEN Val(token_expiry) <= last.t
           ELSE last.t < Val(token_expiry)

\* a token of an exchange with expires_in = 60 is returned, already past
\* its stored expiry
C5_Witness ==
    /\ TokenCall /\ last.ret # None
    /\ last.posts # <<>>
    /\ Exchanged(LastPost)
    /\ Val(LastPost.resp.expires_in) = 60
    /\ Val(token_expiry) = last.t - 240

\* C6: after every successful exchange, in get_jwt_token and in
\* refresh_jwt_token, token_expiry = instant of issue + expires_in - 300.
C6_ExpiryBuffer ==
    (TokenCall /\ last.posts # <<>> /\ Exchanged(LastPost)) =>
        token_expiry = Some(last.t + Val(LastPost.resp.expires_in) - 300)

\* a refresh grant with expires_in = 3600 at a later instant: expiry is 3300 s on
C6_Witness ==
    /\ last.op = "refresh_jwt_token"
    /\ last.posts # <<>>
    /\ LastPost.grant = "refresh_token"
    /\ Exchanged(LastPost)
    /\ Val(LastPost.resp.expires_in) = 3600
    /\ last.t > 0
    /\ token_expiry = Some(last.t + 3300)

\* C7 (as stated): after any call of get_jwt_token or refresh_jwt_token the
\* three fields are either all unchanged or all taken from one response of
\* that call.
C7_TokenStateAllOrNothing ==
    TokenCall =>
        \/ CurrentTokens = last.pre
        \/ \E i \in 1..Len(last.posts) :
              LET r == last.posts[i].resp
              IN /\ r.ok /\ r.expires_in # None
                 /\ CurrentTokens = TokenState(r.access_token, r.refresh_token,
                                               Some(last.t + Val(r.expires_in) - 300))

\* C8 (as stated): refresh_jwt_token, when no refresh token is held or the
\* refresh grant fails, makes a client-credentials exchange and returns the
\* access token of that exchange when the exchange succeeds, in every token
\* state.
C8_RefreshFallsBackToExchange ==
    ( /\ last.op = "refresh_jwt_token"
      /\ \/ last.pre.refresh_token = None
         \/ (last.posts # <<>> /\ last.posts[1].grant = "refresh_token"
                               /\ ~last.posts[1].resp.ok) ) =>
        /\ last.posts # <<>>
        /\ LastPost.grant = "client_credentials"
        /\ Exchanged(LastPost) => (last.exc = "none" /\ last.ret = LastPost.resp.access_token)

(***************************************************************************)
(* BrokerPublisher and run loop: properties.                               *)
(***************************************************************************)
\* the foreground thread is inside connect_mqtt
InConnect == pc \in {"cm_while", "cm_connect", "cm_wait", "cm_check", "cm_sleep"}

\* C1 (as stated): every call of connect_mqtt returns; with a transport that
\* never signals connected it does not block forever.
C1_ConnectReturns == InConnect ~> (~InConnect \/ mqtt_connected)

Failure(o) == o \in {"rc", "raise"}

\* C2 (as stated): a call of publish_with_retry makes at most 3 transport
\* publishes; against a transport that fails twice and then succeeds (by
\* result code or by raising) it does not stop before the third publish and
\* returns True after it; when all 3 fail it returns False.
C2_PublishRetry ==
    /\ Len(pwr.log) <= 3
    /\ pwr.state = "done" =>
          /\ (pwr.log # <<>> /\ Failure(pwr.log[Len(pwr.log)])) => Len(pwr.log) = 3
          /\ (pwr.log # <<>> /\ pwr.log[Len(pwr.log)] = "ok") => pwr.result = TRUE
          /\ (Len(pwr.log) = 3 /\ Failure(pwr.log[3])) => pwr.result = FALSE

\* C3 (as stated): publish_with_retry entered with the flag false calls
\* connect_mqtt before any transport publish; when the reconnect does not
\* succeed it returns False with no transport publish made, so that no
\* second connect attempt follows a failed one.
C3_AbandonOnFailedReconnect ==
    (pwr.state # "idle" /\ ~pwr.entry) =>
        /\ pwr.log # <<>> => pwr.reconnect = "true"
        /\ pwr.reconnect = "false" =>
              (pwr.state = "done" /\ pwr.result = FALSE /\ pwr.log = <<>>)
        /\ (cm_ret = "pwr_266" /\ pwr.reconnect = "none" /\ cm_failed) =>
              pc \notin {"cm_while", "cm_connect", "cm_wait", "cm_check"}

\* run() has been entered and the foreground thread is inside an iteration
InIteration ==
    \/ pc \in {"psd", "pwr_entry", "pwr_for", "pwr_276", "run_sleep", "run_cooldown"}
    \/ (InConnect /\ cm_ret # "init")

\* C9 (as stated): the run loop always eventually starts a next iteration.
C9_NextIterationStarts == InIteration ~> (pc = "run_try")

\* C10: the flag is written by on_connect and on_disconnect only: a step
\* that changes it is no step of the foreground thread, and the flag is true
\* only while the last notification is an on_connect with rc = 0.
C10_FlagWrittenByCallbacksOnly ==
    [][ /\ (mqtt_connected' # mqtt_connected) =>
              ((OnConnect \/ OnDisconnect) /\ UNCHANGED fgvars)
        /\ mqtt_connected' => notified' = "on_connect_ok" ]_vars

\* the foreground thread is publishing while the flag, set by on_connect, is true
C10_Witness ==
    /\ mqtt_connected /\ notified = "on_connect_ok"
    /\ pc = "pwr_276" /\ pwr.entry = FALSE /\ pwr.reconnect = "true"

(***************************************************************************)
(* Start-up and the poll iteration: properties.                            *)
(***************************************************************************)
\* C11: with the broker username or password missing, the constructor
\* raises before connect_mqtt is called (no connect request, no loop_start),
\* and run() is never entered: no fetch is made and nothing is published.
C11_MissingCredentialsFailFast ==
    ~creds =>
        /\ pc \in {"start", "crashed"}
        /\ cm_ret = "none" /\ ~loop_running /\ ~mqtt_connected
        /\ last = NoCall /\ CurrentTokens = TokenState(None, None, None)
        /\ psd_msgs = <<>> /\ pwr = NoPublish

\* the constructor has raised
C11_Witness == ~creds /\ pc = "crashed"

\* a fetch has been made
Fetched == last.op = "fetch_kenter_data"

\* C12: when the token exchange fails (no usable cached token and the
\* request to the token endpoint fails), get_jwt_token returns None and
\* raises nothing, and fetch_kenter_data returns None without any GET to
\* the metering API; whenever no token is obtained, no GET is made.
C12_NoTokenNoGet ==
    Fetched =>
        /\ ( /\ \/ last.pre.access_token = None
                \/ last.pre.token_expiry = None
                \/ last.t >= Val(last.pre.token_expiry)
             /\ ~last.tresp.ok ) =>
                (last.token = None /\ last.exc = "none" /\ CurrentTokens = last.pre)
        /\ last.token = None => (last.ret = None /\ last.gets = 0 /\ last.msgs = <<>>)

\* the cached token has expired, the exchange fails, and the metering API
\* would have answered
C12_Witness ==
    /\ Fetched
    /\ last.pre.access_token # None /\ last.t >= Val(last.pre.token_expiry)
    /\ ~last.tresp.ok /\ last.aresp.ok
    /\ last.token = None /\ last.ret = None /\ last.gets = 0 /\ last.exc = "none"

\* the fetch of the current iteration has failed: no token, or the GET
\* failed (network error, non-2xx status)
IterationFetchFailed ==
    last.op = "run_iteration" /\ last.fetch \in {"no_token", "api_error"}

\* C13: in an iteration whose fetch fails (no token, network error or
\* non-2xx answer of the metering API) nothing is published and no exception
\* leaves the iteration: the foreground thread goes straight to the sleep of
\* line 409, and from there the next iteration starts with its fetch.
C13_FailedFetchSkipsCycle ==
    /\ [](IterationFetchFailed =>
             (pc = "run_sleep" /\ psd_msgs = <<>> /\ pwr.state # "active"))
    /\ [][IterationFetchFailed =>
             (pc' \in {"run_sleep", "run_try"} /\ pwr' = pwr /\ psd_msgs' = psd_msgs)]_vars
    /\ (IterationFetchFailed ~> (pc = "run_try"))

\* the GET fails in an iteration that follows one that published
C13_Witness ==
    /\ IterationFetchFailed /\ last.fetch = "api_error"
    /\ pc = "run_sleep" /\ pwr.state = "done" /\ access_token # None

(***************************************************************************)
(* MeasurementFetcher and the publishes of a cycle: properties.            *)
(***************************************************************************)
Monitored(channel) == channel.channelId \in {"16180", "16280"}

\* the sequence without its j-th element
RemoveAt(seq, j) == [k \in 1..(Len(seq) - 1) |-> IF k < j THEN seq[k] ELSE seq[k + 1]]

\* the answer of the metering API without measurement j of channel i
BodyWithout(body, i, j) == [body EXCEPT ![i].Measurements = RemoveAt(@, j)]

\* C14: a measurement whose status is not "Valid", and any measurement of a
\* channel other than 16180 and 16280, has no effect: the value returned by
\* fetch_kenter_data (slot values, slot timestamps) and the messages
\* published from it (daily totals included) are those of the same answer
\* without that measurement.
C14_OnlyValidMonitoredCount ==
    (Fetched /\ last.aresp.ok) =>
        \A i \in 1..Len(last.aresp.body) :
            \A j \in 1..Len(last.aresp.body[i].Measurements) :
                ( \/ last.aresp.body[i].Measurements[j].status # "Valid"
                  \/ ~Monitored(last.aresp.body[i]) ) =>
                    LET without == [ok |-> TRUE, body |-> BodyWithout(last.aresp.body, i, j)]
                        f == fetch_kenter_data(last.pre, last.t, last.tresp, without)
                    IN /\ f.ret = last.ret
                       /\ publish_sensor_data(f.ret) = last.msgs

\* an invalid measurement follows a valid one of the same slot, and a
\* channel that is not monitored carries a valid measurement of another slot
C14_Witness ==
    /\ Fetched /\ last.ret # None
    /\ last.aresp.body =
          << Channel("16180", << Measurement("Valid", Some(DayStart + 900), 2),
                                 Measurement("Invalid", Some(DayStart + 900), 5) >>),
             Channel("17180", << Measurement("Valid", Some(DayStart + 1800), 5) >>) >>
    /\ Val(last.ret)[<<0, 15>>].consumption = 2
    /\ Val(last.ret)[<<0, 30>>].timestamp = None

\* the timestamps of the valid measurements of the monitored channels
ValidTimestamps(body) ==
    {Val(body[i].Measurements[j].timestamp) :
        <<i, j>> \in {<<i, j>> \in (1..Len(body)) \X (1..2) :
                        /\ Monitored(body[i])
                        /\ j <= Len(body[i].Measurements)
                        /\ body[i].Measurements[j].status = "Valid"}}

\* the slots for which a message is published
PublishedSlots(msgs) == {msgs[k].slot : k \in 1..Len(msgs)} \ {<<"daily">>}

\* C15 (as stated): every valid measurement of a monitored channel at
\* timestamp T is placed in the slot of T's hour and minute, and the slots
\* for which messages are published are exactly the slots of those
\* measurements: none is left out, none is added.
C15_SlotsAreMeasuredSlots ==
    (Fetched /\ last.ret # None) =>
        /\ \A T \in ValidTimestamps(last.aresp.body) :
              /\ QuarterKey(T) \in DOMAIN Val(last.ret)
              /\ Val(last.ret)[QuarterKey(T)].timestamp # None
        /\ PublishedSlots(last.msgs) = {QuarterKey(T) : T \in ValidTimestamps(last.aresp.body)}

\* C16: within one publish_sensor_data call every state message (of a slot
\* or of the day, consumption or feed-in) comes after the discovery config
\* message of the same sensor, and every message is published with
\* retain = true.
C16_ConfigBeforeStateRetained ==
    Fetched =>
        \A k \in 1..Len(last.msgs) :
            /\ last.msgs[k].retain = TRUE
            /\ last.msgs[k].kind = "state" =>
                  \E j \in 1..(k - 1) :
                      /\ last.msgs[j].kind = "config"
                      /\ last.msgs[j].metric = last.msgs[k].metric
                      /\ last.msgs[j].slot = last.msgs[k].slot

\* a cycle of two slots and the day: twelve messages
C16_Witness ==
    /\ Fetched /\ Len(last.msgs) = 12
    /\ last.msgs[2] = Message("config", "feedin", <<0, 15>>, <<"kenter_energy_feedin", <<0, 15>>>>)
    /\ last.msgs[4] = Message("state", "feedin", <<0, 15>>, 5)
    /\ last.msgs[9].kind = "config" /\ last.msgs[9].slot = <<"daily">>
    /\ last.msgs[11].kind = "state" /\ last.msgs[11].slot = <<"daily">>

\* publish_with_retry has just returned False to publish_sensor_data
PublishFailed == pc = "psd" /\ pwr.state = "done" /\ ~pwr.result

\* C17 (as stated): a publish_with_retry that returns False drops that
\* message only: control is back in publish_sensor_data with the remaining
\* messages untouched, every one of them is attempted, the cycle completes
\* and the run loop reaches its next iteration.
C17_FailedPublishDropsOnlyThatMessage ==
    /\ [][(pwr.state = "active" /\ pwr'.state = "done") =>
             (pc' = "psd" /\ psd_msgs' = psd_msgs)]_vars
    /\ (PublishFailed ~> (pc = "run_try"))

(***************************************************************************)
(* connect_mqtt's return value and the False of publish_with_retry.        *)
(***************************************************************************)
\* C18 (as stated): connect_mqtt returns True when it has read the flag
\* true, also when the flag is true at the call, and False only when it has
\* not.  The value returned to line 266 is what the flag was at the read
\* that ended the call; called at line 283 with the flag true, it returns
\* True and the for loop goes on.
C18_ReturnTellsConnected ==
    [][ (InConnect /\ ~InConnect') =>
           /\ cm_ret = "pwr_266" =>
                 pwr'.reconnect = (IF mqtt_connected THEN "true" ELSE "false")
           /\ (cm_ret = "pwr_283" /\ attempt = 0 /\ mqtt_connected) =>
                 pc' = "pwr_for" ]_vars

\* C19 (as stated): under every interleaving of the callbacks with the
\* foreground thread, when publish_with_retry returns False either 3
\* transport publishes were made and all failed, or the broker is not
\* connected; it never returns False after fewer than 3 attempts while the
\* flag is true.
C19_FalseMeansExhaustedOrDisconnected ==
    [][ (pwr.state = "active" /\ pwr'.state = "done" /\ ~pwr'.result) =>
           \/ /\ Len(pwr'.log) = 3
              /\ \A k \in 1..3 : Failure(pwr'.log[k])
           \/ ~mqtt_connected ]_vars

(***************************************************************************)
(* Daily totals.                                                           *)
(***************************************************************************)
\* the payload of the daily state message of a metric
DailyTotal(msgs, metric) ==
    LET k == CHOOSE k \in 1..Len(msgs) :
                 /\ msgs[k].kind = "state"
                 /\ msgs[k].slot = <<"daily">>
                 /\ msgs[k].metric = metric
    IN msgs[k].payload

\* the sum of the slot state messages of a metric
RECURSIVE SumSlotStates(_, _)
SumSlotStates(msgs, metric) ==
    IF msgs = <<>> THEN 0
    ELSE (IF /\ Head(msgs).kind = "state"
             /\ Head(msgs).slot # <<"daily">>
             /\ Head(msgs).metric = metric
          THEN Head(msgs).payload ELSE 0) + SumSlotStates(Tail(msgs), metric)

\* the sum of the valid measurements of a list
RECURSIVE SumValid(_)
SumValid(ms) ==
    IF ms = <<>> THEN 0
    ELSE (IF Head(ms).status = "Valid" THEN Head(ms).value ELSE 0) + SumValid(Tail(ms))

\* the sum of the valid measurements of the channel `id` in an answer
RECURSIVE SumChannel(_, _)
SumChannel(body, id) ==
    IF body = <<>> THEN 0
    ELSE (IF Head(body).channelId = id THEN SumValid(Head(body).Measurements) ELSE 0)
         + SumChannel(Tail(body), id)

\* C20 (as stated): the daily total published for consumption (feed-in) is
\* the sum of the consumption (feed-in) values of the slots published in the
\* same call, and it is the sum of all valid measurements of channel 16180
\* (16280) of the day, also when two valid measurements fall in one slot or
\* a measurement's minute is no multiple of 15.
C20_DailyTotalIsSumOfValid ==
    (Fetched /\ last.ret # None) =>
        /\ DailyTotal(last.msgs, "consumption") = SumSlotStates(last.msgs, "consumption")
        /\ DailyTotal(last.msgs, "feedin") = SumSlotStates(last.msgs, "feedin")
        /\ DailyTotal(last.msgs, "consumption") = SumChannel(last.aresp.body, "16180")
        /\ DailyTotal(last.msgs, "feedin") = SumChannel(last.aresp.body, "16280")

====
